---- MODULE Spec2Model ----
(***************************************************************************)
(* A model of manas-news-notifications (src/main.py): the extraction of    *)
(* news articles from a locale's listing page, the SQLite store of the     *)
(* keys already delivered, the rendering of the digest and the pass that   *)
(* main() drives over the locales.                                         *)
(*                                                                         *)
(* Text is modelled as a sequence of one-character strings, so that         *)
(* split, strip, int() and strptime are computed the way Python computes   *)
(* them.                                                                   *)
(***************************************************************************)
EXTENDS Integers, Sequences, FiniteSets, Bags, TLC

VARIABLES
    \* NewsService.get_news called on its own
    markup,            \* the article blocks of response.text, in document order
    service_locale,    \* NewsService.__locale
    get_news_result,   \* what get_news returned or raised
    \* render_news_articles called on its own
    render_input,      \* the news_articles argument
    lines,             \* the local list `lines`
    render_result,     \* the returned text, lines joined by "\n"
    \* the database file
    schema,            \* whether table news_articles exists
    rows,              \* the committed rows of news_articles: a bag of <<id, locale>>
    last_call,         \* the last call of a Database method made on its own
    \* main(), run pass after pass
    site,              \* the listing page the site serves for each locale
    pc,                \* where main is: "idle" between passes, else the next step
    locale_index,      \* the position in Locale of the loop variable `locale`
    response,          \* the article blocks of the page fetched for this locale
    news_articles,     \* the local list news_articles
    text,              \* the rendered digest
    log,               \* the steps of this pass: <<locale, step, news_articles after it>>
    rows_at_fetch,     \* the committed rows when the loop body of this locale began
    outcome,           \* how the last pass ended
    sent,              \* every send_message call made so far
    prev_log,          \* the log of pass `settled`
    settled,           \* the first pass that ran to its end since the site last changed (0: none)
    passes,            \* passes started
    updates,           \* changes of the site
    faults             \* failures of the network or the storage so far

extractVars == <<markup, service_locale, get_news_result>>
renderVars == <<render_input, lines, render_result>>
storeVars == <<schema, rows, last_call>>
mainVars ==
    <<site, pc, locale_index, response, news_articles, text, log, rows_at_fetch,
      outcome, sent, prev_log, settled, passes, updates, faults>>
vars ==
    <<markup, service_locale, get_news_result, render_input, lines, render_result,
      schema, rows, last_call,
      site, pc, locale_index, response, news_articles, text, log, rows_at_fetch,
      outcome, sent, prev_log, settled, passes, updates, faults>>

-----------------------------------------------------------------------------
(* Bounds of the model *)

\* the longest document (in article blocks) given to get_news on its own
MaxBlocks == 3
\* the longest sequence of articles given to render_news_articles on its own
MaxLen == 3
\* the longest batch given to insert_article on its own
MaxBatch == 2
\* passes of main in one behaviour
MaxPasses == 2
\* changes of the site in one behaviour
MaxUpdates == 1
\* failures of the network or the storage in one behaviour
MaxFaults == 1

-----------------------------------------------------------------------------
(* class Locale(enum.StrEnum): members in definition order; enum.auto() of  *)
(* a StrEnum is the lower-cased member name.                              *)

\* Faulty variant: the members in alphabetical order
Locale_Alphabetical == <<"en", "kg", "ru", "tr">>

Locale == <<"kg", "ru", "en", "tr">>

LocaleSet == {Locale[i] : i \in 1..Len(Locale)}

\* the labels, written in ASCII (the source's carry a flag and the word for
\* "news" in the locale's language)
LOCALE_TO_NEWS_TRANSLATION ==
    [l \in LocaleSet |->
        CASE l = "ru" -> "Novosti(ru)"
          [] l = "kg" -> "Zhanylyktar(kg)"
          [] l = "en" -> "News(en)"
          [] l = "tr" -> "Haberler(tr)"]

-----------------------------------------------------------------------------
(* Python text primitives *)

Last(s) == s[Len(s)]

Whitespace == {" ", "\t", "\n"}

DigitChars == <<"0", "1", "2", "3", "4", "5", "6", "7", "8", "9">>

IsDigit(c) == \E i \in 1..10 : DigitChars[i] = c

DigitVal(c) == (CHOOSE i \in 1..10 : DigitChars[i] = c) - 1

AllDigits(s) == \A i \in 1..Len(s) : IsDigit(s[i])

RECURSIVE DigitsToInt(_)
DigitsToInt(s) ==
    IF s = <<>> THEN 0
    ELSE 10 * DigitsToInt(SubSeq(s, 1, Len(s) - 1)) + DigitVal(Last(s))

\* str.strip()
RECURSIVE LStrip(_)
LStrip(s) ==
    IF s # <<>> /\ Head(s) \in Whitespace THEN LStrip(Tail(s)) ELSE s

RECURSIVE RStrip(_)
RStrip(s) ==
    IF s # <<>> /\ Last(s) \in Whitespace
    THEN RStrip(SubSeq(s, 1, Len(s) - 1))
    ELSE s

Strip(s) == RStrip(LStrip(s))

\* `sub in s`
Contains(s, sub) ==
    \E i \in 1..(Len(s) - Len(sub) + 1) : SubSeq(s, i, i + Len(sub) - 1) = sub

\* s.split(sep) for a one-character sep: always at least one segment
RECURSIVE SplitFrom(_, _, _, _)
SplitFrom(s, sep, cur, acc) ==
    IF s = <<>> THEN Append(acc, cur)
    ELSE IF Head(s) = sep THEN SplitFrom(Tail(s), sep, <<>>, Append(acc, cur))
    ELSE SplitFrom(Tail(s), sep, Append(cur, Head(s)), acc)

Split(s, sep) == SplitFrom(s, sep, <<>>, <<>>)

\* int(s): surrounding whitespace is ignored, one sign is allowed, then
\* decimal digits; anything else raises ValueError.
PyInt(s) ==
    LET t == Strip(s)
        signed == t # <<>> /\ Head(t) \in {"+", "-"}
        body == IF signed THEN Tail(t) ELSE t
    IN  IF body # <<>> /\ AllDigits(body)
        THEN [raised |-> "None",
              value |-> IF signed /\ Head(t) = "-"
                        THEN 0 - DigitsToInt(body) ELSE DigitsToInt(body)]
        ELSE [raised |-> "ValueError", value |-> 0]

IsLeap(y) == (y % 4 = 0 /\ y % 100 # 0) \/ y % 400 = 0

DaysInMonth(y, m) ==
    IF m = 2 THEN (IF IsLeap(y) THEN 29 ELSE 28)
    ELSE IF m \in {4, 6, 9, 11} THEN 30 ELSE 31

\* datetime.datetime.strptime(s, '%d.%m.%Y'): day and month of one or two
\* digits, a year of four digits, separated by dots; a date that does not
\* exist raises ValueError too. A date is <<year, month, day>>.
Strptime(s) ==
    LET f == Split(s, ".")
        shaped == /\ Len(f) = 3
                  /\ \A i \in 1..3 : AllDigits(f[i])
                  /\ Len(f[1]) \in {1, 2}
                  /\ Len(f[2]) \in {1, 2}
                  /\ Len(f[3]) = 4
        d == DigitsToInt(f[1])
        m == DigitsToInt(f[2])
        y == DigitsToInt(f[3])
    IN  IF shaped /\ m \in 1..12 /\ y >= 1 /\ d >= 1 /\ d <= DaysInMonth(y, m)
        THEN [raised |-> "None", value |-> <<y, m, d>>]
        ELSE [raised |-> "ValueError", value |-> <<0, 0, 0>>]

\* datetime comparison: a < b
DateLess(a, b) ==
    \/ a[1] < b[1]
    \/ a[1] = b[1] /\ a[2] < b[2]
    \/ a[1] = b[1] /\ a[2] = b[2] /\ a[3] < b[3]

Pad(n, width) ==
    [i \in 1..width |-> DigitChars[((n \div (10 ^ (width - i))) % 10) + 1]]

\* f'{date:%d.%m.%Y}'
FormatDate(date) ==
    Pad(date[3], 2) \o <<".">> \o Pad(date[2], 2) \o <<".">> \o Pad(date[1], 4)

-----------------------------------------------------------------------------
(* NewsArticle *)

NewsArticle(id, locale, title, date) ==
    [id |-> id, locale |-> locale, title |-> title, date |-> date]

-----------------------------------------------------------------------------
(* NewsService.get_news.  An article block (<article class="post-news">) is *)
(* a record: body (has a div.post-news-body), anchor (the body has an <a>), *)
(* hasHref and href (the anchor's address), text (the anchor's text) and    *)
(* spans (the texts of the body's <span>s, in order).                       *)

Block(body, anchor, hasHref, href, anchor_text, spans) ==
    [body |-> body, anchor |-> anchor, hasHref |-> hasHref, href |-> href,
     text |-> anchor_text, spans |-> spans]

Raise(e) == [raised |-> e, value |-> <<>>]

RECURSIVE ParseBlocks(_, _, _)
ParseBlocks(locale, blocks, articles) ==
    IF blocks = <<>> THEN [raised |-> "None", value |-> articles]
    ELSE
      LET b == Head(blocks)
          rest == Tail(blocks)
          news_id == PyInt(Last(Split(b.href, "/")))
          article_date == Strptime(Strip(Last(b.spans)))
      IN  IF ~b.body THEN Raise("AttributeError")
          ELSE IF ~b.anchor THEN ParseBlocks(locale, rest, articles)
          ELSE IF ~b.hasHref THEN ParseBlocks(locale, rest, articles)
          ELSE IF ~Contains(b.href, <<"n", "e", "w", "s", "/">>)
               THEN ParseBlocks(locale, rest, articles)
          ELSE IF news_id.raised # "None" THEN Raise(news_id.raised)
          ELSE IF b.spans = <<>> THEN Raise("IndexError")
          ELSE IF article_date.raised # "None" THEN Raise(article_date.raised)
          ELSE ParseBlocks(locale, rest,
                   Append(articles,
                       NewsArticle(news_id.value, locale, Strip(b.text),
                                   article_date.value)))


-----------------------------------------------------------------------------
(* render_news_articles.  A line is a sequence of strings (markup tokens    *)
(* and characters); the returned text is the lines joined by "\n".          *)

\* f'{n}' of an int
RECURSIVE NatToChars(_)
NatToChars(n) ==
    IF n < 10 THEN <<DigitChars[n + 1]>>
    ELSE Append(NatToChars(n \div 10), DigitChars[(n % 10) + 1])

IntToChars(n) == IF n < 0 THEN <<"-">> \o NatToChars(0 - n) ELSE NatToChars(n)

\* f'https://manas.edu.kg/{self.locale}/news/{self.id}'
url(a) == <<"https://manas.edu.kg/", a.locale, "/news/">> \o IntToChars(a.id)

\* operator.attrgetter('locale'), operator.attrgetter('date')
get_locale == "locale"

get_date == "date"

\* itertools.groupby(s, key): one group per run of adjacent elements with
\* equal keys, as <<key, elements>>, in order.
RECURSIVE GroupByFrom(_, _, _)
GroupByFrom(s, key, groups) ==
    IF s = <<>> THEN groups
    ELSE IF groups # <<>> /\ Last(groups)[1] = Head(s)[key]
    THEN GroupByFrom(Tail(s), key,
             [groups EXCEPT ![Len(groups)] = <<@[1], Append(@[2], Head(s))>>])
    ELSE GroupByFrom(Tail(s), key, Append(groups, <<Head(s)[key], <<Head(s)>>>>))

\* Faulty variant: the groups are collected first and read afterwards, when the
\* shared iterator has moved on: only the last group still has its elements
groupby_Collected(s, key) ==
    LET groups == GroupByFrom(s, key, <<>>)
    IN  [i \in 1..Len(groups) |->
            <<groups[i][1], IF i = Len(groups) THEN groups[i][2] ELSE <<>>>>]

groupby(s, key) == GroupByFrom(s, key, <<>>)

Reverse(s) == [i \in 1..Len(s) |-> s[Len(s) + 1 - i]]

\* the stable ascending sort by date that list.sort performs: x goes behind
\* every element that is not greater than it
RECURSIVE InsertAscending(_, _, _)
InsertAscending(s, x, key) ==
    IF s = <<>> THEN <<x>>
    ELSE IF DateLess(x[key], Head(s)[key]) THEN <<x>> \o s
    ELSE <<Head(s)>> \o InsertAscending(Tail(s), x, key)

RECURSIVE SortAscending(_, _)
SortAscending(s, key) ==
    IF s = <<>> THEN <<>>
    ELSE InsertAscending(SortAscending(SubSeq(s, 1, Len(s) - 1), key), Last(s), key)

\* Faulty variant: an ascending sort reversed afterwards, which turns equal keys round
sorted_reverse_Unstable(s, key) == Reverse(SortAscending(s, key))

\* sorted(s, key=key, reverse=True): CPython reverses the list, sorts it
\* stably ascending and reverses the result, which keeps equal keys in
\* their original order.
sorted_reverse(s, key) == Reverse(SortAscending(Reverse(s), key))

HeaderLine(locale) == <<"<b>", LOCALE_TO_NEWS_TRANSLATION[locale], "</b>">>

DateLine(date) == <<"\n<b>">> \o FormatDate(date) \o <<"</b>">>

\* f'• <a href="{news_article.url}">{news_article.title}</a>', the bullet
\* written as an asterisk
ItemLine(news_article) ==
    <<"* <a href=\"">> \o url(news_article) \o <<"\">">>
        \o news_article.title \o <<"</a>">>

EndLine == <<"\n">>

\* the loop over date_and_news_articles
RECURSIVE RenderDateGroups(_)
RenderDateGroups(groups) ==
    IF groups = <<>> THEN <<>>
    ELSE <<DateLine(Head(groups)[1])>>
             \o [i \in 1..Len(Head(groups)[2]) |-> ItemLine(Head(groups)[2][i])]
             \o RenderDateGroups(Tail(groups))

\* the loop over locale_and_news_articles
RECURSIVE RenderLocaleGroups(_)
RenderLocaleGroups(groups) ==
    IF groups = <<>> THEN <<>>
    ELSE <<HeaderLine(Head(groups)[1])>>
             \o RenderDateGroups(
                    groupby(sorted_reverse(Head(groups)[2], get_date), get_date))
             \o <<EndLine>>
             \o RenderLocaleGroups(Tail(groups))

\* the list `lines` when the loops end
render_lines(articles) ==
    RenderLocaleGroups(groupby(articles, get_locale))

\* '\n'.join(lines)
RECURSIVE Join(_)
Join(ls) ==
    IF ls = <<>> THEN <<>>
    ELSE IF Len(ls) = 1 THEN Head(ls)
    ELSE Head(ls) \o <<"\n">> \o Join(Tail(ls))

-----------------------------------------------------------------------------
(* class Database.  The table is a bag of <<id, locale>> rows; its PRIMARY  *)
(* KEY (id, locale) is what the statements below keep.                     *)

\* Faulty variant: a plain INSERT, which the primary key refuses for a stored key
InsertStatement_Plain(table, key) ==
    IF BagIn(key, table)
    THEN [raised |-> "IntegrityError", rows |-> table]
    ELSE [raised |-> "None", rows |-> table (+) SetToBag({key})]

\* INSERT ... ON CONFLICT (id, locale) DO NOTHING, for one row
InsertStatement(table, key) ==
    [raised |-> "None",
     rows |-> IF BagIn(key, table) THEN table ELSE table (+) SetToBag({key})]

\* cursor.executemany(statement, args): the rows one after the other; a
\* storage failure at row failAt (0: none) ends it there.
RECURSIVE ExecuteMany(_, _, _)
ExecuteMany(table, args, failAt) ==
    IF args = <<>> THEN [raised |-> "None", rows |-> table]
    ELSE IF failAt = 1 THEN [raised |-> "OperationalError", rows |-> table]
    ELSE LET r == InsertStatement(table, Head(args))
         IN  IF r.raised # "None" THEN r
             ELSE ExecuteMany(r.rows, Tail(args), failAt - 1)

\* Faulty variant: the statements run with no commit after them, so that nothing
\* they wrote outlives the call
Transaction_NoCommit(committed, done, commitFails) ==
    [raised |-> IF commitFails /\ done.raised = "None"
                THEN "OperationalError" ELSE done.raised,
     rows |-> committed]

\* Faulty variant: every statement is committed as it runs, so that a failing batch
\* keeps the rows written before the failure
Transaction_Autocommit(committed, done, commitFails) ==
    [raised |-> IF commitFails /\ done.raised = "None"
                THEN "OperationalError" ELSE done.raised,
     rows |-> done.rows]

\* `with self.__connection:` around the statements: commit when the block
\* ends normally, roll back when it raises (or when the commit fails).
Transaction(committed, done, commitFails) ==
    IF done.raised # "None" THEN [raised |-> done.raised, rows |-> committed]
    ELSE IF commitFails THEN [raised |-> "OperationalError", rows |-> committed]
    ELSE [raised |-> "None", rows |-> done.rows]

InsertArgs(articles) ==
    [i \in 1..Len(articles) |-> <<articles[i].id, articles[i].locale>>]

\* Database.insert_article; failAt = Len(args) + 1 is a failing commit.
insert_article(exists, table, articles, failAt) ==
    LET args == InsertArgs(articles)
    IN  IF ~exists THEN [raised |-> "OperationalError", rows |-> table]
        ELSE Transaction(table, ExecuteMany(table, args, failAt),
                         failAt = Len(args) + 1)

\* Faulty variant: the ids of every locale (no WHERE clause)
get_article_ids_EveryLocale(table, locale) ==
    {row[1] : row \in BagToSet(table)}

\* Faulty variant: the ids of the other locales (WHERE locale != ?)
get_article_ids_OtherLocales(table, locale) ==
    {row[1] : row \in {r \in BagToSet(table) : r[2] # locale}}

\* Database.get_article_ids: SELECT id FROM news_articles WHERE locale = ?
get_article_ids(table, locale) ==
    {row[1] : row \in {r \in BagToSet(table) : r[2] = locale}}

\* main: [news_article for news_article in news_articles
\*        if news_article.id not in article_ids]
FilterNew(articles, article_ids) ==
    SelectSeq(articles, LAMBDA a : a.id \notin article_ids)

-----------------------------------------------------------------------------
(* Sample inputs *)

SeqsUpTo(S, n) == UNION {[1..k -> S] : k \in 0..n}

HrefNews10 == <<"/", "k", "g", "/", "n", "e", "w", "s", "/", "1", "0">>

HrefNews11 == <<"/", "k", "g", "/", "n", "e", "w", "s", "/", "1", "1">>

HrefNews12 == <<"/", "k", "g", "/", "n", "e", "w", "s", "/", "1", "2">>

HrefAbout == <<"/", "k", "g", "/", "a", "b", "o", "u", "t">>

HrefNonNumeric == <<"/", "k", "g", "/", "n", "e", "w", "s", "/", "a", "b", "c">>

HrefNoSegment == <<"/", "k", "g", "/", "n", "e", "w", "s", "/">>

Date_01_03_2024 == <<"0", "1", ".", "0", "3", ".", "2", "0", "2", "4">>

Date_02_03_2024 == <<"0", "2", ".", "0", "3", ".", "2", "0", "2", "4">>

DateMalformed == <<"s", "o", "o", "n">>

AuxSpan == <<"n">>

TitleA == <<" ", "A", " ">>

TitleB == <<"B">>

TitleText == <<"A">>

\* two real articles
BlockValid10 ==
    Block(TRUE, TRUE, TRUE, HrefNews10, TitleA, <<AuxSpan, Date_01_03_2024>>)

BlockValid11 ==
    Block(TRUE, TRUE, TRUE, HrefNews11, TitleB, <<Date_02_03_2024>>)

BlockValid12 ==
    Block(TRUE, TRUE, TRUE, HrefNews12, TitleA, <<Date_02_03_2024>>)

\* a promotional block with no link at all
BlockNoAnchor == Block(TRUE, FALSE, FALSE, <<>>, <<>>, <<>>)

\* a link with no href attribute
BlockNoHref == Block(TRUE, TRUE, FALSE, <<>>, TitleA, <<>>)

\* a link that is not an article link
BlockOtherLink == Block(TRUE, TRUE, TRUE, HrefAbout, TitleA, <<>>)

\* an article-shaped link whose last path segment is not a number
BlockNonNumeric ==
    Block(TRUE, TRUE, TRUE, HrefNonNumeric, TitleA, <<Date_01_03_2024>>)

\* an article-shaped link with nothing after the last slash
BlockNoSegment ==
    Block(TRUE, TRUE, TRUE, HrefNoSegment, TitleA, <<Date_01_03_2024>>)

\* an article whose last span is not a date
BlockBadDate ==
    Block(TRUE, TRUE, TRUE, HrefNews12, TitleA, <<AuxSpan, DateMalformed>>)

\* an article with no span
BlockNoSpan == Block(TRUE, TRUE, TRUE, HrefNews12, TitleA, <<>>)

\* an article element without a div.post-news-body
BlockNoBody == Block(FALSE, FALSE, FALSE, <<>>, <<>>, <<>>)

SampleBlocks ==
    {BlockValid10, BlockValid11, BlockNoAnchor, BlockNoHref, BlockOtherLink,
     BlockNonNumeric, BlockNoSegment, BlockBadDate, BlockNoSpan, BlockNoBody}

SampleDates == {<<2024, 1, 1>>, <<2024, 1, 2>>, <<2023, 12, 31>>}

SampleArticles ==
    {NewsArticle(i, l, TitleText, d) : i \in {1, 2, 3}, l \in {"en", "ru"}, d \in SampleDates}

\* listing pages: one with no article, one with two articles around a
\* promotional block, one whose second article has a malformed date
DocQuiet == <<BlockNoAnchor, BlockOtherLink>>

DocTwo == <<BlockValid10, BlockNoAnchor, BlockValid11>>

DocBroken == <<BlockValid12, BlockBadDate>>

SampleDocs == {DocQuiet, DocTwo, DocBroken}

\* the pages the site serves when the first pass starts
InitialDocs == {DocQuiet, DocTwo}

\* what the parsing loop of get_news yields on each sample page, computed once
ParsedPage == [l \in LocaleSet, doc \in SampleDocs |-> ParseBlocks(l, doc, <<>>)]

\* Faulty variant: the service is built once, before the loop, for the first locale
get_news_FirstLocale(locale, blocks) == ParseBlocks(Locale[1], blocks, <<>>)

\* NewsService(locale, http_client).get_news() on the blocks of response.text
get_news(locale, blocks) ==
    IF blocks \in SampleDocs THEN ParsedPage[locale, blocks]
    ELSE ParseBlocks(locale, blocks, <<>>)

\* what render_news_articles yields on the articles of each sample page,
\* computed once
RenderedPage ==
    [l \in LocaleSet, doc \in SampleDocs |-> Join(render_lines(ParsedPage[l, doc].value))]

\* render_news_articles(news_articles): '\n'.join(lines)
render_news_articles(articles) ==
    IF /\ articles # <<>>
       /\ \E doc \in SampleDocs : articles = ParsedPage[articles[1].locale, doc].value
    THEN RenderedPage[articles[1].locale,
                      CHOOSE doc \in SampleDocs :
                          articles = ParsedPage[articles[1].locale, doc].value]
    ELSE Join(render_lines(articles))

StoreSample ==
    {NewsArticle(i, l, TitleText, <<2024, 3, 1>>) : i \in {10, 11}, l \in {"kg", "ru"}}

-----------------------------------------------------------------------------
(* get_news called on its own: a document of sample blocks is parsed.     *)

NotCalled == [raised |-> "NotCalled", value |-> <<>>]

NotRendered == [returned |-> FALSE, text |-> <<>>]

NoCall ==
    [op |-> "none", args |-> <<>>, locale |-> Locale[1], fault |-> 0,
     raised |-> "None", result |-> {}, before |-> EmptyBag,
     repeat |-> FALSE, after_insert |-> FALSE, inserted |-> <<>>]

StoreIdle ==
    /\ schema = FALSE
    /\ rows = EmptyBag
    /\ last_call = NoCall

NoOutcome == [ended |-> "never", locale |-> Locale[1], step |-> "none", raised |-> "None"]

MainIdle ==
    /\ site = [l \in LocaleSet |-> <<>>]
    /\ pc = "idle"
    /\ locale_index = 1
    /\ response = <<>>
    /\ news_articles = <<>>
    /\ text = <<>>
    /\ log = <<>>
    /\ rows_at_fetch = EmptyBag
    /\ outcome = NoOutcome
    /\ sent = <<>>
    /\ prev_log = <<>>
    /\ settled = 0
    /\ passes = 0
    /\ updates = 0
    /\ faults = 0

ExtractIdle ==
    /\ markup = <<>>
    /\ service_locale = Locale[1]
    /\ get_news_result = NotCalled

RenderIdle ==
    /\ render_input = <<>>
    /\ lines = <<>>
    /\ render_result = NotRendered

InitExtract ==
    /\ markup \in SeqsUpTo(SampleBlocks, MaxBlocks)
    /\ service_locale \in LocaleSet
    /\ get_news_result = NotCalled
    /\ RenderIdle
    /\ StoreIdle
    /\ MainIdle

GetNews ==
    /\ get_news_result = NotCalled
    /\ get_news_result' = get_news(service_locale, markup)
    /\ UNCHANGED <<markup, service_locale, renderVars, storeVars, mainVars>>

NextExtract == GetNews

SpecExtract == InitExtract /\ [][NextExtract]_vars

-----------------------------------------------------------------------------
(* render_news_articles called on its own *)

InitRender ==
    /\ render_input \in SeqsUpTo(SampleArticles, MaxLen)
    /\ lines = <<>>
    /\ render_result = NotRendered
    /\ ExtractIdle
    /\ StoreIdle
    /\ MainIdle

Render ==
    /\ ~render_result.returned
    /\ lines' = render_lines(render_input)
    /\ render_result' = [returned |-> TRUE, text |-> render_news_articles(render_input)]
    /\ UNCHANGED <<render_input, extractVars, storeVars, mainVars>>

NextRender == Render

SpecRender == InitRender /\ [][NextRender]_vars

-----------------------------------------------------------------------------
(* The Database methods called on their own, in any order, on one database *)
(* file.  last_call records the call just made: what was asked, what it     *)
(* raised or returned, the rows before it, and how it follows the call      *)
(* before it.                                                               *)

InitStore ==
    /\ StoreIdle
    /\ ExtractIdle
    /\ RenderIdle
    /\ MainIdle

InsertSucceeded ==
    last_call.op = "insert" /\ last_call.raised = "None"

\* Faulty variant: a plain CREATE TABLE, which fails when the table is there
DbInit_PlainCreate ==
    /\ schema' = TRUE
    /\ rows' = rows
    /\ last_call' = [NoCall EXCEPT !.op = "init", !.before = rows,
                                   !.raised = IF schema THEN "OperationalError"
                                              ELSE "None",
                                   !.repeat = last_call.op = "init"]
    /\ UNCHANGED <<extractVars, renderVars, mainVars>>

\* Faulty variant: the table is dropped and created again
DbInit_DropAndCreate ==
    /\ schema' = TRUE
    /\ rows' = EmptyBag
    /\ last_call' = [NoCall EXCEPT !.op = "init", !.before = rows,
                                   !.repeat = last_call.op = "init"]
    /\ UNCHANGED <<extractVars, renderVars, mainVars>>

\* database.init(): CREATE TABLE IF NOT EXISTS leaves a table that is there
\* alone and creates an empty one otherwise
DbInit ==
    /\ schema' = TRUE
    /\ rows' = rows
    /\ last_call' = [NoCall EXCEPT !.op = "init", !.before = rows,
                                   !.repeat = last_call.op = "init"]
    /\ UNCHANGED <<extractVars, renderVars, mainVars>>

InsertArticle ==
    \E articles \in SeqsUpTo(StoreSample, MaxBatch) :
      \E failAt \in 0..(Len(articles) + 1) :
        LET r == insert_article(schema, rows, articles, failAt)
        IN  /\ rows' = r.rows
            /\ last_call' =
                 [NoCall EXCEPT !.op = "insert", !.args = articles,
                                !.fault = failAt, !.raised = r.raised,
                                !.before = rows,
                                !.repeat = InsertSucceeded
                                             /\ last_call.args = articles]
            /\ UNCHANGED <<schema, extractVars, renderVars, mainVars>>

GetArticleIds ==
    \E locale \in {"kg", "ru"}, fails \in BOOLEAN :
        /\ last_call' =
             [NoCall EXCEPT !.op = "ids", !.locale = locale,
                            !.before = rows,
                            !.raised = IF fails \/ ~schema
                                       THEN "OperationalError" ELSE "None",
                            !.result = IF fails \/ ~schema
                                       THEN {} ELSE get_article_ids(rows, locale),
                            !.after_insert = InsertSucceeded,
                            !.inserted = IF InsertSucceeded
                                         THEN last_call.args ELSE <<>>]
        /\ UNCHANGED <<schema, rows, extractVars, renderVars, mainVars>>

NextStore == DbInit \/ InsertArticle \/ GetArticleIds

SpecStore == InitStore /\ [][NextStore]_vars

-----------------------------------------------------------------------------
(* main(): one pass after the other on one database file.  Each action is  *)
(* one step of the loop body for the locale Locale[locale_index]; a step    *)
(* that raises ends the pass, since main catches nothing.                   *)

locale == Locale[locale_index]

Logged(step, articles) == Append(log, <<locale, step, articles>>)

\* an exception leaves main: the pass is over
Abort(step, raised) ==
    /\ pc' = "idle"
    /\ outcome' = [ended |-> "raised", locale |-> locale, step |-> step,
                   raised |-> raised]
    /\ UNCHANGED <<locale_index, prev_log, settled>>

\* the loop body ends: on to the next locale, or out of the loop
NextLocale ==
    IF locale_index < Len(Locale)
    THEN /\ pc' = "fetch"
         /\ locale_index' = locale_index + 1
         /\ UNCHANGED <<outcome, prev_log, settled>>
    ELSE /\ pc' = "idle"
         /\ outcome' = [NoOutcome EXCEPT !.ended = "completed"]
         /\ prev_log' = IF settled > 0 THEN prev_log ELSE log'
         /\ settled' = IF settled > 0 THEN settled ELSE passes
         /\ UNCHANGED locale_index

InitMain ==
    /\ site \in [LocaleSet -> InitialDocs]
    /\ pc = "idle"
    /\ locale_index = 1
    /\ response = <<>>
    /\ news_articles = <<>>
    /\ text = <<>>
    /\ log = <<>>
    /\ rows_at_fetch = EmptyBag
    /\ outcome = NoOutcome
    /\ sent = <<>>
    /\ prev_log = <<>>
    /\ settled = 0
    /\ passes = 0
    /\ updates = 0
    /\ faults = 0
    /\ StoreIdle
    /\ ExtractIdle
    /\ RenderIdle

\* the site publishes another page for one locale.  A change during a pass
\* is seen by main as a change before or after the pass, so the site changes
\* between passes.
SiteUpdate ==
    /\ pc = "idle"
    /\ updates < MaxUpdates
    /\ \E l \in LocaleSet, doc \in SampleDocs :
          /\ doc # site[l]
          /\ site' = [site EXCEPT ![l] = doc]
    /\ updates' = updates + 1
    /\ settled' = 0
    /\ UNCHANGED <<pc, locale_index, response, news_articles, text, log, outcome,
                   sent, prev_log, passes, faults, schema, rows>>
    /\ UNCHANGED <<last_call, rows_at_fetch, extractVars, renderVars>>

\* main starts: the connection and the clients are opened, database.init()
PassStart ==
    /\ pc = "idle"
    /\ passes < MaxPasses
    /\ passes' = passes + 1
    /\ schema' = TRUE
    /\ pc' = "fetch"
    /\ locale_index' = 1
    /\ response' = <<>>
    /\ news_articles' = <<>>
    /\ text' = <<>>
    /\ log' = <<>>
    /\ rows_at_fetch' = rows
    /\ UNCHANGED <<site, outcome, sent, prev_log, settled, updates, faults, rows>>
    /\ UNCHANGED <<last_call, extractVars, renderVars>>

\* news_service.get_news(): self.__http_client.get(url)
Fetch ==
    /\ pc = "fetch"
    /\ log' = Logged("Fetch", <<>>)
    /\ rows_at_fetch' = rows
    /\ news_articles' = <<>>
    /\ text' = <<>>
    /\ \/ /\ response' = site[locale]
          /\ pc' = "extract"
          /\ UNCHANGED <<faults, locale_index, outcome, prev_log, settled>>
       \/ /\ faults < MaxFaults
          /\ faults' = faults + 1
          /\ response' = <<>>
          /\ Abort("Fetch", "TransportError")
    /\ UNCHANGED <<site, sent, passes, updates, schema, rows>>
    /\ UNCHANGED <<last_call, extractVars, renderVars>>

\* Faulty variant: each article is stored as soon as it is parsed, so that the
\* ones before a failing block are in the store when get_news raises
Extract_StoresAsParsed ==
    /\ pc = "extract"
    /\ LET r == get_news(locale, response)
           parses(k) == ParseBlocks(locale, SubSeq(response, 1, k), <<>>)
           n == CHOOSE k \in 0..Len(response) :
                   /\ parses(k).raised = "None"
                   /\ \A j \in (k + 1)..Len(response) : parses(j).raised # "None"
       IN  /\ news_articles' = r.value
           /\ log' = Logged("Extract", r.value)
           /\ rows' = insert_article(schema, rows, parses(n).value, 0).rows
           /\ IF r.raised = "None"
              THEN /\ pc' = "filter"
                   /\ UNCHANGED <<locale_index, outcome, prev_log, settled>>
              ELSE Abort("Extract", r.raised)
    /\ UNCHANGED <<site, response, text, sent, passes, updates, faults, schema>>
    /\ UNCHANGED <<last_call, rows_at_fetch, extractVars, renderVars>>

\* news_service.get_news(): the parsing of response.text
Extract ==
    /\ pc = "extract"
    /\ LET r == get_news(locale, response)
       IN  /\ news_articles' = r.value
           /\ log' = Logged("Extract", r.value)
           /\ IF r.raised = "None"
              THEN /\ pc' = "filter"
                   /\ UNCHANGED <<locale_index, outcome, prev_log, settled>>
              ELSE Abort("Extract", r.raised)
    /\ UNCHANGED <<site, response, text, sent, passes, updates, faults, schema, rows>>
    /\ UNCHANGED <<last_call, rows_at_fetch, extractVars, renderVars>>

\* Faulty variant: the loop body goes on to insert_article without `if news_articles:`
Filter_NoGuard ==
    /\ pc = "filter"
    /\ \/ LET kept == FilterNew(news_articles, get_article_ids(rows, locale))
          IN  /\ news_articles' = kept
              /\ log' = Logged("Filter", kept)
              /\ pc' = "persist"
              /\ UNCHANGED <<locale_index, outcome, prev_log, settled, faults>>
       \/ /\ faults < MaxFaults
          /\ faults' = faults + 1
          /\ log' = Logged("Filter", news_articles)
          /\ Abort("Filter", "OperationalError")
          /\ UNCHANGED news_articles
    /\ UNCHANGED <<site, response, text, sent, passes, updates, schema, rows>>
    /\ UNCHANGED <<last_call, rows_at_fetch, extractVars, renderVars>>

\* database.get_article_ids(locale), the list comprehension and
\* `if news_articles:`
Filter ==
    /\ pc = "filter"
    /\ \/ LET kept == FilterNew(news_articles, get_article_ids(rows, locale))
          IN  /\ news_articles' = kept
              /\ log' = Logged("Filter", kept)
              /\ IF kept # <<>>
                 THEN /\ pc' = "persist"
                      /\ UNCHANGED <<locale_index, outcome, prev_log, settled>>
                 ELSE NextLocale
              /\ UNCHANGED faults
       \/ /\ faults < MaxFaults
          /\ faults' = faults + 1
          /\ log' = Logged("Filter", news_articles)
          /\ Abort("Filter", "OperationalError")
          /\ UNCHANGED news_articles
    /\ UNCHANGED <<site, response, text, sent, passes, updates, schema, rows>>
    /\ UNCHANGED <<last_call, rows_at_fetch, extractVars, renderVars>>

\* Faulty variant: the batch goes on to be rendered and sent without being stored
Persist_Skipped ==
    /\ pc = "persist"
    /\ log' = Logged("Persist", news_articles)
    /\ pc' = "render"
    /\ UNCHANGED <<locale_index, outcome, prev_log, settled, faults, rows>>
    /\ UNCHANGED <<site, response, news_articles, text, sent, passes, updates, schema>>
    /\ UNCHANGED <<last_call, rows_at_fetch, extractVars, renderVars>>

\* database.insert_article(news_articles)
Persist ==
    /\ pc = "persist"
    /\ log' = Logged("Persist", news_articles)
    /\ \E failAt \in 0..(Len(news_articles) + 1) :
          LET r == insert_article(schema, rows, news_articles, failAt)
          IN  /\ rows' = r.rows
              /\ IF failAt = 0
                 THEN UNCHANGED faults
                 ELSE faults < MaxFaults /\ faults' = faults + 1
              /\ IF r.raised = "None"
                 THEN /\ pc' = "render"
                      /\ UNCHANGED <<locale_index, outcome, prev_log, settled>>
                 ELSE Abort("Persist", r.raised)
    /\ UNCHANGED <<site, response, news_articles, text, sent, passes, updates, schema>>
    /\ UNCHANGED <<last_call, rows_at_fetch, extractVars, renderVars>>

\* text = render_news_articles(news_articles)
RenderDigest ==
    /\ pc = "render"
    /\ text' = render_news_articles(news_articles)
    /\ log' = Logged("Render", news_articles)
    /\ pc' = "notify"
    /\ UNCHANGED <<site, locale_index, response, news_articles, outcome, sent,
                   prev_log, settled, passes, updates, faults, schema, rows>>
    /\ UNCHANGED <<last_call, rows_at_fetch, extractVars, renderVars>>

SendMessage(result) ==
    Append(sent, [pass |-> passes, locale |-> locale, articles |-> news_articles,
                  text |-> text, result |-> result])

\* Faulty variant: a send_message that raises takes the batch out of the store again
Notify_UndoesBatch ==
    /\ pc = "notify"
    /\ log' = Logged("Notify", news_articles)
    /\ \/ /\ sent' = SendMessage("delivered")
          /\ NextLocale
          /\ UNCHANGED <<faults, rows>>
       \/ /\ faults < MaxFaults
          /\ faults' = faults + 1
          /\ sent' = SendMessage("rejected")
          /\ NextLocale
          /\ UNCHANGED rows
       \/ /\ faults < MaxFaults
          /\ faults' = faults + 1
          /\ sent' = SendMessage("raised")
          /\ rows' = rows (-) SetToBag({InsertArgs(news_articles)[i] :
                                           i \in 1..Len(news_articles)})
          /\ Abort("Notify", "TransportError")
    /\ UNCHANGED <<site, response, news_articles, text, passes, updates, schema>>
    /\ UNCHANGED <<last_call, rows_at_fetch, extractVars, renderVars>>

\* telegram_bot.send_message(chat_id=CHAT_USERNAME, text=text): the post is
\* answered ("delivered"), answered with an error that is only printed
\* ("rejected"), or raises ("raised").
Notify ==
    /\ pc = "notify"
    /\ log' = Logged("Notify", news_articles)
    /\ \/ /\ sent' = SendMessage("delivered")
          /\ NextLocale
          /\ UNCHANGED faults
       \/ /\ faults < MaxFaults
          /\ faults' = faults + 1
          /\ sent' = SendMessage("rejected")
          /\ NextLocale
       \/ /\ faults < MaxFaults
          /\ faults' = faults + 1
          /\ sent' = SendMessage("raised")
          /\ Abort("Notify", "TransportError")
    /\ UNCHANGED <<site, response, news_articles, text, passes, updates, schema, rows>>
    /\ UNCHANGED <<last_call, rows_at_fetch, extractVars, renderVars>>

Next ==
    \/ SiteUpdate
    \/ PassStart
    \/ Fetch
    \/ Extract
    \/ Filter
    \/ Persist
    \/ RenderDigest
    \/ Notify

Spec == InitMain /\ [][Next]_vars

-----------------------------------------------------------------------------
(* One database file, used either by Database calls made on their own or   *)
(* by passes of main: the behaviours of SpecStore and those of Spec.        *)

\* no listing page is served: the Database methods are called on their own
StandAlone == site = [l \in LocaleSet |-> <<>>]

InitStoreOrMain == InitStore \/ InitMain

NextStoreOrMain ==
    \/ StandAlone /\ DbInit
    \/ StandAlone /\ InsertArticle
    \/ StandAlone /\ GetArticleIds
    \/ ~StandAlone /\ SiteUpdate
    \/ ~StandAlone /\ PassStart
    \/ ~StandAlone /\ Fetch
    \/ ~StandAlone /\ Extract
    \/ ~StandAlone /\ Filter
    \/ ~StandAlone /\ Persist
    \/ ~StandAlone /\ RenderDigest
    \/ ~StandAlone /\ Notify

SpecStoreOrMain == InitStoreOrMain /\ [][NextStoreOrMain]_vars

-----------------------------------------------------------------------------
(* Reading a digest back: the sections of `lines`.  A section is the header *)
(* line that opens it and its date groups, each a date line and the item    *)
(* lines under it.                                                          *)

IsHeaderLine(l) == l # <<>> /\ l[1] = "<b>"

IsDateLine(l) == l # <<>> /\ l[1] = "\n<b>"

IsItemLine(l) == l # <<>> /\ l[1] = "* <a href=\""

RECURSIVE ParseLines(_, _)
ParseLines(ls, secs) ==
    IF ls = <<>> THEN secs
    ELSE LET l == Head(ls)
             n == Len(secs)
             m == Len(secs[n].groups)
         IN  IF IsHeaderLine(l)
             THEN ParseLines(Tail(ls), Append(secs, [header |-> l, groups |-> <<>>]))
             ELSE IF IsDateLine(l) /\ n > 0
             THEN ParseLines(Tail(ls),
                      [secs EXCEPT ![n].groups = Append(@, [date |-> l, items |-> <<>>])])
             ELSE IF IsItemLine(l) /\ n > 0 /\ m > 0
             THEN ParseLines(Tail(ls),
                      [secs EXCEPT ![n].groups[m].items = Append(@, l)])
             ELSE ParseLines(Tail(ls), secs)

Sections == ParseLines(lines, <<>>)

RECURSIVE Concat(_)
Concat(ss) == IF ss = <<>> THEN <<>> ELSE Head(ss) \o Concat(Tail(ss))

\* every item line of a section, in order
SectionItems(sec) == Concat([i \in 1..Len(sec.groups) |-> sec.groups[i].items])

\* the k-th smallest element of a set of numbers
Kth(S, k) == CHOOSE x \in S : Cardinality({y \in S : y <= x}) = k

\* the locales of the input in the order of their first appearance
FirstIndexes(s) == {i \in 1..Len(s) : \A j \in 1..(i - 1) : s[j].locale # s[i].locale}

LocalesInOrder(s) ==
    [k \in 1..Cardinality(FirstIndexes(s)) |-> s[Kth(FirstIndexes(s), k)].locale]

\* the maximal runs of adjacent articles of one locale
RunStarts(s) == {i \in 1..Len(s) : i = 1 \/ s[i].locale # s[i - 1].locale}

RunEnd(s, k) ==
    IF k = Cardinality(RunStarts(s)) THEN Len(s) ELSE Kth(RunStarts(s), k + 1) - 1

Runs(s) ==
    [k \in 1..Cardinality(RunStarts(s)) |-> SubSeq(s, Kth(RunStarts(s), k), RunEnd(s, k))]

ItemLines(as) == [i \in 1..Len(as) |-> ItemLine(as[i])]

DatesOf(as) == {as[i].date : i \in 1..Len(as)}

-----------------------------------------------------------------------------
(* Claims about render_news_articles (checked under SpecRender) *)

\* C3: for every non-empty input the digest has exactly one section per
\* distinct locale of the input, the sections in the order in which the
\* locales first appear, and each section lists all the articles of its
\* locale, also when they are not adjacent in the input.
C3_GroupingStability ==
    (render_result.returned /\ render_input # <<>>) =>
        LET ls == LocalesInOrder(render_input)
        IN  /\ Len(Sections) = Len(ls)
            /\ \A k \in 1..Len(ls) :
                  LET mine == SelectSeq(render_input, LAMBDA a : a.locale = ls[k])
                      got == SectionItems(Sections[k])
                  IN  /\ Sections[k].header = HeaderLine(ls[k])
                      /\ Len(got) = Len(mine)
                      /\ \A i \in 1..Len(mine) :
                            \E j \in 1..Len(got) : got[j] = ItemLine(mine[i])

\* C10: within each section of the digest the date headings are in
\* strictly descending date order, there is exactly one heading per distinct
\* date of the section's articles, and the articles of one date are listed
\* under its heading in their original relative order of the input.
C10_DateOrdering ==
    render_result.returned =>
        LET runs == Runs(render_input)
        IN  /\ Len(Sections) = Len(runs)
            /\ \A k \in 1..Len(runs) :
                  LET groups == Sections[k].groups
                      dates == DatesOf(runs[k])
                  IN  /\ Len(groups) = Cardinality(dates)
                      /\ \A i \in 1..Len(groups) :
                            \E d \in dates :
                               /\ groups[i].date = DateLine(d)
                               /\ groups[i].items =
                                      ItemLines(SelectSeq(runs[k], LAMBDA a : a.date = d))
                               /\ \A j \in (i + 1)..Len(groups) :
                                     \E e \in dates :
                                        /\ groups[j].date = DateLine(e)
                                        /\ DateLess(e, d)

\* C10 witness: a section of three articles was rendered in which the first
\* and the third share a date that is earlier than the second's.
C10_Witness ==
    /\ render_result.returned
    /\ Len(render_input) = 3
    /\ render_input[1].locale = render_input[2].locale
    /\ render_input[2].locale = render_input[3].locale
    /\ render_input[1].date = render_input[3].date
    /\ render_input[1].id # render_input[3].id
    /\ DateLess(render_input[1].date, render_input[2].date)

\* the bag of the elements of a sequence
BagOfSeq(s) ==
    [x \in {s[i] : i \in 1..Len(s)} |-> Cardinality({i \in 1..Len(s) : s[i] = x})]

\* C18: the digest has one bullet line for each article of the input: the
\* bag of its bullet lines is the bag of the bullet lines of the input
\* articles, so that no article is dropped and none is listed more often
\* than the input holds it; and every line that is not a bullet is a
\* header, a date heading or the line that closes a section.
C18_DigestPreservesBatch ==
    render_result.returned =>
        LET items == SelectSeq(lines, IsItemLine)
        IN  /\ Len(items) = Len(render_input)
            /\ BagOfSeq(items) = BagOfSeq(ItemLines(render_input))
            /\ Concat([k \in 1..Len(Sections) |-> SectionItems(Sections[k])]) = items
            /\ \A i \in 1..Len(lines) :
                  \/ IsItemLine(lines[i])
                  \/ IsHeaderLine(lines[i])
                  \/ IsDateLine(lines[i])
                  \/ lines[i] = EndLine
            /\ render_result.text = Join(lines)

\* C18 witness: a digest was rendered of an input that holds one article
\* twice, with an article of another locale between the two.
C18_Witness ==
    /\ render_result.returned
    /\ Len(render_input) = 3
    /\ render_input[1] = render_input[3]
    /\ render_input[2].locale # render_input[1].locale

-----------------------------------------------------------------------------
(* Claims about get_news (checked under SpecExtract) *)

ArticleLink(b) ==
    b.body /\ b.anchor /\ b.hasHref /\ Contains(b.href, <<"n", "e", "w", "s", "/">>)

\* a block that is expected noise: no link, a link with no address, a link
\* that is not article-shaped, or one whose last path segment is missing or
\* not a number
IsNoise(b) ==
    /\ b.body
    /\ \/ ~b.anchor
       \/ ~b.hasHref
       \/ ~Contains(b.href, <<"n", "e", "w", "s", "/">>)
       \/ PyInt(Last(Split(b.href, "/"))).raised # "None"

IsValidBlock(b) ==
    /\ ArticleLink(b)
    /\ PyInt(Last(Split(b.href, "/"))).raised = "None"
    /\ b.spans # <<>>
    /\ Strptime(Strip(Last(b.spans))).raised = "None"

ArticleOf(loc, b) ==
    NewsArticle(PyInt(Last(Split(b.href, "/"))).value, loc, Strip(b.text),
                Strptime(Strip(Last(b.spans))).value)

ValidArticles(loc, blocks) ==
    LET valid == SelectSeq(blocks, IsValidBlock)
    IN  [i \in 1..Len(valid) |-> ArticleOf(loc, valid[i])]

\* C4: in a document whose blocks are all valid articles or expected noise,
\* get_news raises nothing, leaves the noise out and returns every valid
\* block, in document order.
C4_NoiseTolerance ==
    (/\ get_news_result.raised # "NotCalled"
     /\ \A i \in 1..Len(markup) : IsNoise(markup[i]) \/ IsValidBlock(markup[i]))
        => /\ get_news_result.raised = "None"
           /\ get_news_result.value = ValidArticles(service_locale, markup)

-----------------------------------------------------------------------------
(* Claims about Database (checked under SpecStore) *)

KeysOf(articles) ==
    {InsertArgs(articles)[i] : i \in 1..Len(articles)}

NoDuplicateRow(table) == \A k \in BagToSet(table) : CopiesIn(k, table) = 1

\* C5: when insert_article(S) is called a second time right after it
\* succeeded, get_article_ids is, for every locale, what it was after the
\* first call, no key is stored twice, and the second call raises nothing
\* (unless the storage itself fails under it), also when S names a key twice.
C5_IdempotentInsert ==
    (last_call.op = "insert" /\ last_call.repeat) =>
        /\ \A l \in LocaleSet :
              get_article_ids(rows, l) = get_article_ids(last_call.before, l)
        /\ NoDuplicateRow(rows)
        /\ NoDuplicateRow(last_call.before)
        /\ (last_call.fault = 0 => last_call.raised = "None")

\* C5 witness: a batch that names one key twice was inserted twice in a row
\* and the second call returned.
C5_Witness ==
    /\ last_call.op = "insert"
    /\ last_call.repeat
    /\ last_call.raised = "None"
    /\ Len(last_call.args) = 2
    /\ Cardinality(KeysOf(last_call.args)) = 1

\* C6: right after insert_article(A) succeeded for candidates A of one
\* locale, filtering A against get_article_ids(locale) leaves nothing.
C6_DiffCorrectness ==
    (/\ last_call.op = "ids"
     /\ last_call.raised = "None"
     /\ last_call.after_insert
     /\ \A i \in 1..Len(last_call.inserted) :
           last_call.inserted[i].locale = last_call.locale)
        => FilterNew(last_call.inserted, last_call.result) = <<>>

\* C6 witness: ids were read right after a successful insert of two
\* candidates of the locale asked for.
C6_Witness ==
    /\ last_call.op = "ids"
    /\ last_call.raised = "None"
    /\ last_call.after_insert
    /\ Len(last_call.inserted) = 2
    /\ Cardinality(KeysOf(last_call.inserted)) = 2
    /\ \A i \in 1..2 : last_call.inserted[i].locale = last_call.locale

\* C9: after insert_article(S) either every key of S is stored, or the call
\* raised and the stored rows are exactly those before the call.
C9_AtomicBatch ==
    last_call.op = "insert" =>
        /\ last_call.raised = "None" =>
              \A k \in KeysOf(last_call.args) : BagIn(k, rows)
        /\ last_call.raised # "None" => rows = last_call.before

\* C9 witness: a call failed at its second row after a first row that was a
\* new key.
C9_Witness ==
    /\ last_call.op = "insert"
    /\ last_call.raised # "None"
    /\ last_call.fault = 2
    /\ Len(last_call.args) = 2
    /\ ~BagIn(InsertArgs(last_call.args)[1], last_call.before)
    /\ schema

\* C11: a call of init raises nothing, leaves the table in place and leaves
\* get_article_ids(locale) as it was for every locale: on a fresh store, on
\* a store that holds keys, and when it follows another call of init.
C11_IdempotentInit ==
    last_call.op = "init" =>
        /\ last_call.raised = "None"
        /\ schema
        /\ rows = last_call.before
        /\ \A l \in LocaleSet :
              get_article_ids(rows, l) = get_article_ids(last_call.before, l)

\* C11 witness: init was called right after another call of init, on a
\* store that holds keys of two locales.
C11_Witness ==
    /\ last_call.op = "init"
    /\ last_call.repeat
    /\ get_article_ids(last_call.before, "kg") # {}
    /\ get_article_ids(last_call.before, "ru") # {}

\* C15: insert_article for articles of one locale leaves
\* get_article_ids(B) as it was for every other locale B; and filtering
\* against get_article_ids(A) keeps an article of locale A exactly when its
\* key (id, A) is not stored, also when its id is stored under another
\* locale.
C15_LocaleIndependentKey ==
    /\ last_call.op = "insert" =>
          \A a \in LocaleSet :
             (\A i \in 1..Len(last_call.args) : last_call.args[i].locale = a)
                => \A b \in LocaleSet \ {a} :
                      get_article_ids(rows, b) = get_article_ids(last_call.before, b)
    /\ (last_call.op = "ids" /\ last_call.raised = "None") =>
          \A article \in StoreSample :
             article.locale = last_call.locale =>
                (FilterNew(<<article>>, last_call.result) = <<article>>
                    <=> ~BagIn(<<article.id, article.locale>>, rows))

\* C15 witness: the ids of ru were read right after articles of kg were
\* inserted, one of them with an id that ru has not stored.
C15_Witness ==
    /\ last_call.op = "ids"
    /\ last_call.raised = "None"
    /\ last_call.locale = "ru"
    /\ last_call.after_insert
    /\ last_call.inserted # <<>>
    /\ \A i \in 1..Len(last_call.inserted) : last_call.inserted[i].locale = "kg"
    /\ \E i \in 1..Len(last_call.inserted) :
          /\ BagIn(<<last_call.inserted[i].id, "kg">>, rows)
          /\ ~BagIn(<<last_call.inserted[i].id, "ru">>, rows)
    /\ get_article_ids(rows, "ru") # {}

-----------------------------------------------------------------------------
(* Claims about main (checked under Spec) *)

StepOrder == <<"Fetch", "Extract", "Filter", "Persist", "Render", "Notify">>

IsPrefix(a, b) == Len(a) <= Len(b) /\ a = SubSeq(b, 1, Len(a))

LocaleIndex(l) == CHOOSE i \in 1..Len(Locale) : Locale[i] = l

EntriesOf(lg, l) == SelectSeq(lg, LAMBDA e : e[1] = l)

\* the steps logged for locale l, in order
StepsOf(lg, l) == [i \in 1..Len(EntriesOf(lg, l)) |-> EntriesOf(lg, l)[i][2]]

HasStep(lg, l, step) == \E i \in 1..Len(lg) : lg[i][1] = l /\ lg[i][2] = step

\* news_articles after the (first) step `step` of locale l
InfoOf(lg, l, step) ==
    lg[CHOOSE i \in 1..Len(lg) : lg[i][1] = l /\ lg[i][2] = step][3]

\* the loop body of locale l ended without raising, in the pass of `log`
LocaleDone(l) ==
    \/ LocaleIndex(l) < locale_index
    \/ pc = "idle" /\ outcome.ended = "completed"

\* the run of locale l came to an end of its own: through Notify, at an
\* empty Filter, or at its own failing Extract
RunEnded(l) ==
    \/ StepsOf(log, l) = StepOrder
    \/ StepsOf(log, l) = SubSeq(StepOrder, 1, 3) /\ InfoOf(log, l, "Filter") = <<>>
    \/ StepsOf(log, l) = SubSeq(StepOrder, 1, 2)

\* get_news raises on these blocks at an article whose date span is missing
\* or malformed
DateSpanBreak(blocks) ==
    \E i \in 1..Len(blocks) :
        /\ get_news(Locale[1], SubSeq(blocks, 1, i - 1)).raised = "None"
        /\ ArticleLink(blocks[i])
        /\ PyInt(Last(Split(blocks[i].href, "/"))).raised = "None"
        /\ \/ blocks[i].spans = <<>>
           \/ Strptime(Strip(Last(blocks[i].spans))).raised # "None"

\* C1: when the Extract step of one locale fails on a missing or malformed
\* date span, every other locale, also those after it, still runs its own
\* pipeline in that pass (and persists and notifies what it has new).
C1_PerLocaleIsolation ==
    (/\ pc = "idle"
     /\ outcome.ended = "raised"
     /\ outcome.step = "Extract"
     /\ DateSpanBreak(response)
     /\ faults = 0)
        => \A l \in LocaleSet \ {outcome.locale} :
              HasStep(log, l, "Fetch") /\ RunEnded(l)

\* C2: once a pass has run to its end, every later pass over the unchanged
\* site extracts the same articles, filters them all out, and never calls
\* insert_article, render_news_articles or send_message.
C2_NoRedelivery ==
    (settled > 0 /\ passes > settled) =>
        /\ \A i \in 1..Len(log) :
              /\ log[i][2] \in {"Fetch", "Extract", "Filter"}
              /\ log[i][2] = "Extract" =>
                    log[i][3] = InfoOf(prev_log, log[i][1], "Extract")
              /\ log[i][2] = "Filter" =>
                    (pc = "idle" /\ outcome.ended = "raised" /\ i = Len(log))
                    \/ log[i][3] = <<>>
        /\ \A j \in 1..Len(sent) : sent[j].pass <= settled

\* C2 witness: a second pass over the unchanged site has run to its end; it
\* extracted again an article that the first pass had delivered.
C2_Witness ==
    /\ settled > 0
    /\ passes > settled
    /\ pc = "idle"
    /\ outcome.ended = "completed"
    /\ \E l \in LocaleSet :
          /\ HasStep(prev_log, l, "Notify")
          /\ HasStep(log, l, "Filter")
          /\ InfoOf(log, l, "Extract") # <<>>

SentFor(l) == SelectSeq(sent, LAMBDA m : m.pass = passes /\ m.locale = l)

\* C7: the steps of one locale's run are a prefix of Fetch, Extract,
\* Filter, Persist, Render, Notify; Persist, Render and Notify run only
\* after a non-empty Filter; a run that ends without raising has run all
\* three exactly once if the filtered list was non-empty and none of them if
\* it was empty; and the notifier is called once, with the rendered text.
C7_StepOrder ==
    \A l \in LocaleSet :
        LET steps == StepsOf(log, l)
        IN  /\ IsPrefix(steps, StepOrder)
            /\ Len(steps) >= 4 => InfoOf(log, l, "Filter") # <<>>
            /\ LocaleDone(l) =>
                  /\ Len(steps) \in {3, 6}
                  /\ Len(steps) = 6 <=> InfoOf(log, l, "Filter") # <<>>
            /\ Len(SentFor(l)) = (IF Len(steps) = 6 THEN 1 ELSE 0)
            /\ Len(steps) = 6 =>
                  /\ SentFor(l)[1].articles = InfoOf(log, l, "Filter")
                  /\ SentFor(l)[1].text =
                         render_news_articles(InfoOf(log, l, "Filter"))

\* C7 witness: in one pass a locale with new articles has run all six steps
\* and a locale with none has ended at Filter.
C7_Witness ==
    \E l1, l2 \in LocaleSet :
        /\ LocaleDone(l1)
        /\ LocaleDone(l2)
        /\ StepsOf(log, l1) = StepOrder
        /\ StepsOf(log, l2) = SubSeq(StepOrder, 1, 3)

\* C8: when send_message fails after insert_article committed the batch,
\* the keys of the batch stay stored, later passes filter those articles out
\* as seen, and no later send_message call carries any of them.
C8_LossyDelivery ==
    \A i \in 1..Len(sent) :
        sent[i].result # "delivered" =>
            /\ \A k \in KeysOf(sent[i].articles) : BagIn(k, rows)
            /\ \A j \in (i + 1)..Len(sent) :
                  KeysOf(sent[j].articles) \cap KeysOf(sent[i].articles) = {}
            /\ (/\ passes > sent[i].pass
                /\ pc \in {"persist", "render", "notify"}
                /\ locale = sent[i].locale)
                  => KeysOf(news_articles) \cap KeysOf(sent[i].articles) = {}

\* C8 witness: send_message raised in one pass, and a later pass has
\* extracted an article of that batch again and filtered the locale.
C8_Witness ==
    \E i \in 1..Len(sent) :
        /\ sent[i].result = "raised"
        /\ passes > sent[i].pass
        /\ HasStep(log, sent[i].locale, "Filter")
        /\ KeysOf(InfoOf(log, sent[i].locale, "Extract"))
              \cap KeysOf(sent[i].articles) # {}

\* C12: when the run of a locale ends at a failing Fetch, or at an Extract
\* that fails on a block whose date span is absent or malformed, the store
\* is as it was when the run began, the run has no Persist, Render or Notify
\* step, the notifier was not called for the locale, and nothing of the
\* failed extraction is kept, also when valid blocks precede the failing one.
C12_NoWriteBeforeFilter ==
    (/\ pc = "idle"
     /\ outcome.ended = "raised"
     /\ \/ outcome.step = "Fetch"
        \/ outcome.step = "Extract" /\ DateSpanBreak(response))
        => /\ rows = rows_at_fetch
           /\ IsPrefix(StepsOf(log, outcome.locale), <<"Fetch", "Extract">>)
           /\ Len(StepsOf(log, outcome.locale)) =
                  (IF outcome.step = "Fetch" THEN 1 ELSE 2)
           /\ SentFor(outcome.locale) = <<>>
           /\ news_articles = <<>>
           /\ text = <<>>

\* C12 witness: the Extract of a locale other than the first failed on a
\* malformed date span behind a valid article block, in a pass in which an
\* earlier locale had stored its articles.
C12_Witness ==
    /\ pc = "idle"
    /\ outcome.ended = "raised"
    /\ outcome.step = "Extract"
    /\ outcome.locale # Locale[1]
    /\ DateSpanBreak(response)
    /\ IsValidBlock(response[1])
    /\ HasStep(log, Locale[1], "Persist")
    /\ rows # EmptyBag

\* the enumeration order the locales are configured in
ConfiguredOrder == <<"kg", "ru", "en", "tr">>

OrderIndex(l) == CHOOSE i \in 1..Len(ConfiguredOrder) : ConfiguredOrder[i] = l

\* a log entry after which the loop goes on to the next locale: a Notify,
\* or a Filter that kept nothing
EndsRun(e) == e[2] = "Notify" \/ (e[2] = "Filter" /\ e[3] = <<>>)

\* C13: the steps of a pass begin with the Fetch of KG; every step is
\* followed either by a later step of the same locale or, when it ended the
\* run of its locale, by the Fetch of the next locale in the order KG, RU,
\* EN, TR; nothing follows a step that failed; and a pass that ran to its
\* end has processed all four locales.
C13_SequentialLocales ==
    /\ log # <<>> => (log[1][1] = ConfiguredOrder[1] /\ log[1][2] = "Fetch")
    /\ \A i \in 1..(Len(log) - 1) :
          \/ /\ log[i + 1][1] = log[i][1]
             /\ log[i + 1][2] # "Fetch"
             /\ ~EndsRun(log[i])
          \/ /\ EndsRun(log[i])
             /\ OrderIndex(log[i][1]) < Len(ConfiguredOrder)
             /\ log[i + 1][1] = ConfiguredOrder[OrderIndex(log[i][1]) + 1]
             /\ log[i + 1][2] = "Fetch"
    /\ (pc # "idle" /\ log # <<>>) =>
          \/ locale = Last(log)[1] /\ ~EndsRun(Last(log))
          \/ /\ EndsRun(Last(log))
             /\ pc = "fetch"
             /\ OrderIndex(Last(log)[1]) < Len(ConfiguredOrder)
             /\ locale = ConfiguredOrder[OrderIndex(Last(log)[1]) + 1]
    /\ (pc = "idle" /\ outcome.ended = "raised") =>
          (Last(log)[1] = outcome.locale /\ Last(log)[2] = outcome.step)
    /\ (pc = "idle" /\ outcome.ended = "completed") =>
          /\ Last(log)[1] = ConfiguredOrder[Len(ConfiguredOrder)]
          /\ EndsRun(Last(log))

\* C13 witness: a pass has run to its end in which a locale that ran all six
\* steps was followed by a locale that ended at Filter and by one that ran
\* all six steps.
C13_Witness ==
    /\ pc = "idle"
    /\ outcome.ended = "completed"
    /\ \E i, j \in 1..Len(log) :
          /\ i < j
          /\ log[i][2] = "Notify"
          /\ log[j][2] = "Notify"
          /\ \E l \in LocaleSet :
                /\ OrderIndex(log[i][1]) < OrderIndex(l)
                /\ OrderIndex(l) < OrderIndex(log[j][1])
                /\ StepsOf(log, l) = SubSeq(StepOrder, 1, 3)

\* the keys (id, locale) of the article links of a digest text: each bullet
\* is followed by https://manas.edu.kg/, the locale, /news/ and the id up
\* to the closing of the href
LinkStarts(t) == {p \in 1..Len(t) : t[p] = "* <a href=\""}

LinkKey(t, p) ==
    LET ends == {e \in (p + 4)..Len(t) : t[e] = "\">"}
        q == CHOOSE e \in ends : \A d \in ends : e <= d
    IN  <<PyInt(SubSeq(t, p + 4, q - 1)).value, t[p + 2]>>

LinkKeys(t) == {LinkKey(t, p) : p \in LinkStarts(t)}

\* the step just taken was a call of the notifier, whose record is Last(sent)
JustNotified == log # <<>> /\ Last(log)[2] = "Notify"

\* C16: when the notifier is called, the keys linked in its text are the
\* keys of the batch it is called for; every key of a batch the notifier
\* was called for, in this pass or in an earlier one, is committed in the
\* store; and the batches of two notifier calls share no key, whatever
\* failed in between.
C16_AtMostOnce ==
    /\ JustNotified =>
          /\ sent # <<>>
          /\ LinkKeys(Last(sent).text) = KeysOf(Last(sent).articles)
    /\ \A i \in 1..Len(sent) :
          /\ sent[i].articles # <<>>
          /\ \A a \in 1..Len(sent[i].articles) :
                /\ BagIn(<<sent[i].articles[a].id, sent[i].articles[a].locale>>, rows)
                /\ \A j \in (i + 1)..Len(sent) :
                      \A b \in 1..Len(sent[j].articles) :
                         \/ sent[j].articles[b].id # sent[i].articles[a].id
                         \/ sent[j].articles[b].locale # sent[i].articles[a].locale

\* C16 witness: after a notifier call of an earlier pass, a later pass has
\* extracted an article of that text again, filtered it out, and made a
\* notifier call of its own.
C16_Witness ==
    \E i, j \in 1..Len(sent) :
        /\ sent[i].pass < sent[j].pass
        /\ sent[j].pass = passes
        /\ HasStep(log, sent[i].locale, "Filter")
        /\ LinkKeys(sent[i].text)
              \cap KeysOf(InfoOf(log, sent[i].locale, "Extract")) # {}

\* the places of a digest text where a locale header begins
HeaderStarts(t) == {p \in 1..Len(t) : t[p] = "<b>"}

\* C17: every notifier call is made for a non-empty batch of articles that
\* all carry the locale being processed; a pass makes at most one notifier
\* call for each locale; and when the notifier is called, its text opens
\* with the header of that locale, has no other locale header, and links
\* articles of that locale only.
C17_OneDigestPerLocale ==
    /\ \A i \in 1..Len(sent) :
          /\ sent[i].locale \in LocaleSet
          /\ sent[i].articles # <<>>
          /\ \A a \in 1..Len(sent[i].articles) :
                sent[i].articles[a].locale = sent[i].locale
          /\ \A j \in (i + 1)..Len(sent) :
                sent[j].pass = sent[i].pass => sent[j].locale # sent[i].locale
    /\ JustNotified =>
          /\ sent # <<>>
          /\ Last(sent).locale = Last(log)[1]
          /\ HeaderStarts(Last(sent).text) = {1}
          /\ Last(sent).text[2] = LOCALE_TO_NEWS_TRANSLATION[Last(sent).locale]
          /\ LinkStarts(Last(sent).text) # {}
          /\ \A p \in LinkStarts(Last(sent).text) :
                Last(sent).text[p + 2] = Last(sent).locale

\* C17 witness: one pass has made notifier calls for two locales, each for
\* a batch of two articles.
C17_Witness ==
    \E i, j \in 1..Len(sent) :
        /\ i < j
        /\ sent[i].pass = sent[j].pass
        /\ sent[i].locale # sent[j].locale
        /\ Len(sent[i].articles) = 2
        /\ Len(sent[j].articles) = 2

-----------------------------------------------------------------------------
(* Claims about the store over Database calls and passes alike (checked    *)
(* under SpecStoreOrMain)                                                  *)

\* C14: no step removes a key from the store: every key (id, locale) that
\* is stored before a call of init, insert_article or get_article_ids, or
\* before a step of a pass, whether the call or the step succeeds or fails,
\* is stored after it.
C14_MonotonicStore ==
    [][\A k \in BagToSet(rows) : BagIn(k, rows')]_vars

\* C14 witness: a second pass was cut short by a failing insert_article
\* while the store held the keys of the first pass.
C14_Witness ==
    /\ passes = 2
    /\ pc = "idle"
    /\ outcome.ended = "raised"
    /\ outcome.step = "Persist"
    /\ sent # <<>>
    /\ \A i \in 1..Len(sent) : \A k \in KeysOf(sent[i].articles) : BagIn(k, rows)

====
